---- MODULE Spec2Model ----
(***************************************************************************)
(* Sales dashboard (src/app.py): the GCS spreadsheet import into the       *)
(* vendas table, the single-record add and delete routes with their        *)
(* optional write-back, and the readers of the table.                      *)
(*                                                                         *)
(* The table is reached only through SQLAlchemy sessions, one per request  *)
(* (one per application context).  A session's statements run inside a     *)
(* transaction: `store` is the committed table, which is what every other  *)
(* session reads; a session's own uncommitted work lives in its request    *)
(* record until commit() publishes it or the session is removed (rolled    *)
(* back) when its application context is torn down.                        *)
(***************************************************************************)
EXTENDS Integers, Sequences, FiniteSets, TLC

\* ------------------------------------------------------------------ bounds
MaxRows == 1      \* rows of a spreadsheet handed to the import
MaxReq  == 2      \* requests started in one behaviour
MaxId   == 2      \* ids a client asks /excluir/<id> for: 1..MaxId

Procs == {1, 2}   \* requests served at the same time (threads)

\* ------------------------------------------------------------- cell values
\* A text is a sequence of one-character strings.  A spreadsheet cell is a
\* text, a number (kept in tenths: 27 is 2.7) or empty/NaN.
Str(s) == [t |-> "str", s |-> s, v |-> 0]
Num(v) == [t |-> "num", s |-> <<>>, v |-> v]
NaN    == [t |-> "nan", s |-> <<>>, v |-> 0]

Digits == {"0", "1", "2"}
DigitVal(c) == IF c = "0" THEN 0 ELSE IF c = "1" THEN 1 ELSE 2

\* str.strip(): drops leading and trailing whitespace.
RECURSIVE LStrip(_)
LStrip(s) == IF s # <<>> /\ Head(s) = " " THEN LStrip(Tail(s)) ELSE s
RECURSIVE RStrip(_)
RStrip(s) == IF s # <<>> /\ s[Len(s)] = " " THEN RStrip(SubSeq(s, 1, Len(s) - 1)) ELSE s
Strip(s) == RStrip(LStrip(s))

\* Value of a run of decimal digits, most significant first.
RECURSIVE DigitsValue(_)
DigitsValue(s) == IF s = <<>> THEN 0
                  ELSE 10 * DigitsValue(SubSeq(s, 1, Len(s) - 1)) + DigitVal(s[Len(s)])
AllDigits(s) == s # <<>> /\ \A i \in 1..Len(s) : s[i] \in Digits

\* int(text): an optional sign, then digits; anything else raises ValueError.
IntParse(s) ==
  LET body == IF s # <<>> /\ Head(s) \in {"-", "+"} THEN Tail(s) ELSE s
  IN  IF AllDigits(body)
      THEN [ok |-> TRUE,
            v  |-> IF s # <<>> /\ Head(s) = "-" THEN 0 - DigitsValue(body) ELSE DigitsValue(body)]
      ELSE [ok |-> FALSE, v |-> 0]

\* float -> int as numpy's astype(int) does it: truncation toward zero.
Trunc(tenths) == IF tenths >= 0 THEN tenths \div 10 ELSE 0 - ((0 - tenths) \div 10)
AsTypeInt(tenths) == Trunc(tenths)

\* ----------------------------------------------------------------- source
REQUIRED_COLS == {"Produto", "Quantidade", "Categoria"}

\* pd.read_excel: an empty cell, an empty text and the default NA texts
\* ("nan", "NA", ...) are all read as NaN.
NaTexts == {<<>>, <<"n", "a", "n">>}
ReadExcelCell(c) == IF c.t = "str" /\ c.s \in NaTexts THEN NaN ELSE c

\* Series.astype(str).str.strip()
AsStr(c) == IF c.t = "nan" THEN <<"n", "a", "n">> ELSE c.s
AsStrStripped(c) == Strip(AsStr(c))

\* pd.to_numeric(errors="coerce"): a number, a text that parses as one, or NaN.
ToNumeric(c) ==
  IF c.t = "num" THEN c
  ELSE IF c.t = "str" /\ IntParse(Strip(c.s)).ok THEN Num(10 * IntParse(Strip(c.s)).v)
  ELSE NaN
FillNa0(c) == IF c.t = "nan" THEN Num(0) ELSE c
QuantidadeOf(c) == AsTypeInt(FillNa0(ToNumeric(c)).v)

\* missing = REQUIRED_COLS - set(df.columns)
MissingColsProdutoOnly(cols) == {"Produto"} \ cols
MissingCols(cols) == REQUIRED_COLS \ cols

\* The three normalising assignments of read_xls_from_gcs, row by row.
NormalizeRowNoStrip(row) ==
  [Produto    |-> AsStr(ReadExcelCell(row.Produto)),
   Quantidade |-> QuantidadeOf(ReadExcelCell(row.Quantidade)),
   Categoria  |-> AsStr(ReadExcelCell(row.Categoria))]
NormalizeRow(row) ==
  [Produto    |-> AsStrStripped(ReadExcelCell(row.Produto)),
   Quantidade |-> QuantidadeOf(ReadExcelCell(row.Quantidade)),
   Categoria  |-> AsStrStripped(ReadExcelCell(row.Categoria))]
NormalizeRows(rows) == [i \in 1..Len(rows) |-> NormalizeRow(rows[i])]

\* Spreadsheets the bucket may hold.  A row keeps a cell for each required
\* column; `cols` says which columns the sheet really has, and a cell of an
\* absent column is never read.  Any other column is ignored by the import.
Cells(p, q, c) == [Produto |-> p, Quantidade |-> q, Categoria |-> c]
RawRows ==
  { Cells(Str(<<" ", "a">>), Num(27),  Str(<<"a", " ">>)),
    Cells(Str(<<" ">>),      Num(-15), NaN) }

RECURSIVE SeqsUpTo(_, _)
SeqsUpTo(S, n) ==
  IF n = 0 THEN {<<>>}
  ELSE LET shorter == SeqsUpTo(S, n - 1)
       IN  shorter \cup {Append(q, x) : q \in {r \in shorter : Len(r) = n - 1}, x \in S}

Sheet(cols, rows) == [cols |-> cols, rows |-> rows]
Sources ==
  {Sheet(REQUIRED_COLS, rows) : rows \in SeqsUpTo(RawRows, MaxRows)}
    \cup {Sheet(REQUIRED_COLS \cup {"Obs"},
                 <<Cells(Str(<<"a">>), Str(<<" ", "2">>), Str(<<"n">>)),
                   Cells(NaN, NaN, Str(<<"a">>)),
                   Cells(Str(<<"a">>), Str(<<"x">>), Str(<<>>))>>)}
    \cup {Sheet(cols, <<Cells(Str(<<"a">>), Num(20), Str(<<"a">>))>>) :
            cols \in {{"Produto", "Categoria"}, {"Quantidade", "Obs"}}}

\* ------------------------------------------------------------------ table
\* A Venda row: id, produto, quantidade, categoria.
Venda(id, row) == [id |-> id, produto |-> row.Produto,
                   quantidade |-> row.Quantidade, categoria |-> row.Categoria]
Ids(st) == {r.id : r \in st}
MaxIdOf(st) == IF st = {} THEN 0 ELSE CHOOSE m \in Ids(st) : \A i \in Ids(st) : i <= m

\* Venda.query.order_by(Venda.id.asc()).all()
RECURSIVE OrderById(_)
OrderById(st) ==
  IF st = {} THEN <<>>
  ELSE LET first == CHOOSE r \in st : \A o \in st : r.id <= o.id
       IN  <<first>> \o OrderById(st \ {first})

\* The business fields of a sequence of Venda rows, ids dropped.
Fields(vs) == [i \in 1..Len(vs) |->
                 [Produto |-> vs[i].produto, Quantidade |-> vs[i].quantidade,
                  Categoria |-> vs[i].categoria]]

\* INSERTs flushed at commit: the primary key continues after the largest id.
Inserted(st, rows) == {Venda(MaxIdOf(st) + i, rows[i]) : i \in 1..Len(rows)}

\* db.session.query(Venda).delete(): the DELETE runs inside the session's
\* transaction.  The committed table is untouched; the transaction holds the
\* ids it deleted until commit.
DeleteStatementAutocommit(st) == [store |-> {}, deleted |-> {}]
DeleteStatement(st) == [store |-> st, deleted |-> Ids(st)]

\* db.session.commit() of the import: the deleted ids go, the added rows come.
CommitImport(st, deleted, rows) ==
  LET kept == {r \in st : r.id \notin deleted}
  IN  kept \cup Inserted(kept, rows)

\* db.session.delete(v); db.session.commit(): DELETE ... WHERE id = v.id
DeleteByProduto(st, v) == {r \in st : r.produto # v.produto}
DeleteById(st, v) == {r \in st : r.id # v.id}

\* dump_db_to_dataframe followed by DataFrame.to_excel: the sheet written back.
dump_db_to_dataframe(st) ==
  LET vendas == OrderById(st)
  IN  Sheet(REQUIRED_COLS,
            [i \in 1..Len(vendas) |->
               Cells(Str(vendas[i].produto), Num(10 * vendas[i].quantidade),
                     Str(vendas[i].categoria))])

\* /adicionar's validation of the stripped form fields.
CamposPresentes(produto, categoria) == produto # <<>> /\ categoria # <<>>
QuantidadeValidaZero(raw) == IntParse(raw).ok /\ IntParse(raw).v >= 0
QuantidadeValida(raw) == IntParse(raw).ok /\ IntParse(raw).v >= 1

\* The response after the write-back attempt: its failure is caught and logged.
StatusAfterSyncRaises(ok) == IF ok THEN 302 ELSE 500
StatusAfterSync(ok) == 302

\* Form fields a client may post.
Form(p, q, c) == [produto |-> p, quantidade |-> q, categoria |-> c]
Forms ==
  { Form(<<" ", "a">>, <<" ", "2">>,      <<"a", " ">>),
    Form(<<" ">>,      <<"2">>,           <<"a">>),
    Form(<<"a">>,      <<"2">>,           <<>>),
    Form(<<"a">>,      <<"0">>,           <<"a">>),
    Form(<<"a">>,      <<"-", "1">>,      <<"a">>),
    Form(<<"a">>,      <<"2", ".", "0">>, <<"a">>),
    Form(<<"a">>,      <<>>,              <<"a">>) }

\* ------------------------------------------------------------------ state
VARIABLES
  DATABASE_URL,      \* the configured database: "sqlite" (the default) or "server"
  SYNC_BACK_TO_GCS,  \* the write-back flag
  store,             \* the committed rows of table vendas
  blob,              \* the spreadsheet in the bucket
  writer,            \* sqlite: the request whose transaction holds the write lock, 0 if none
  req,               \* per request thread: where its handler is, and its locals
  committed,         \* history: the table as the last commit left it
  nreq               \* history: requests started
vars == <<DATABASE_URL, SYNC_BACK_TO_GCS, store, blob, writer, req, committed, nreq>>

\* Venda.query.get(id) that found nothing.
NoVenda == [id |-> 0, produto |-> <<>>, quantidade |-> 0, categoria |-> <<>>]

\* A request thread between requests.  `pre` (the table when the request began),
\* `dirty` (another request committed since) and `mid` (an import had its
\* DELETE outstanding when the request last queried the table) are history.
Idle ==
  [pc |-> "idle", kind |-> "none", produto |-> <<>>, quantidade_raw |-> <<>>,
   categoria |-> <<>>, id |-> 0, fetched |-> Sheet({}, <<>>), deleted |-> {},
   insert_count |-> 0, vendas |-> <<>>, status |-> 0, error |-> "none",
   sync |-> "none", v |-> NoVenda, pre |-> {}, dirty |-> FALSE, mid |-> FALSE]

\* The DataFrame read_xls_from_gcs returned to the import.
Df(p) == NormalizeRows(req[p].fetched.rows)

\* sqlite admits one writing transaction at a time; a server database does not
\* stop a second transaction from writing other rows.
LockFree(p) == DATABASE_URL = "sqlite" => writer \in {0, p}
Taken(p) == IF DATABASE_URL = "sqlite" THEN p ELSE 0

\* Venda.query...all() by request r: the rows every session can see.
ImportOpen == \E q \in Procs : req[q].pc = "c_loop"
Query(r) == [r EXCEPT !.vendas = OrderById(store), !.mid = ImportOpen]

\* Every other request in flight has now seen a commit that is not its own.
Dirtied(p) == [q \in Procs |-> IF q = p THEN req[q] ELSE [req[q] EXCEPT !.dirty = TRUE]]

\* vendas.db outlives the process: db.create_all() finds the table as an
\* earlier run left it, empty or filled by an import of a one-row sheet.
InitialTables == {CommitImport({}, {}, NormalizeRows(rows)) : rows \in SeqsUpTo(RawRows, 1)}

Init ==
  /\ DATABASE_URL \in {"sqlite", "server"}
  /\ SYNC_BACK_TO_GCS \in BOOLEAN
  /\ store \in InitialTables
  /\ blob \in Sources
  /\ writer = 0
  /\ req = [p \in Procs |-> Idle]
  /\ committed = store
  /\ nreq = 0

\* A request arrives: flask dispatches it to a thread that has sent its last
\* response.  Threads are interchangeable: the lowest free one takes it.
Free(p) == req[p].pc \in {"idle", "done"}
Begin(p, kind, fields) ==
  /\ Free(p)
  /\ \A q \in Procs : q < p => ~Free(q)
  /\ nreq < MaxReq
  /\ nreq' = nreq + 1
  /\ req' = [req EXCEPT ![p] = [fields EXCEPT !.kind = kind, !.pre = store]]
  /\ UNCHANGED <<DATABASE_URL, SYNC_BACK_TO_GCS, store, blob, writer, committed>>

\* A handler step that touches only the request's locals.
Local(p, r) ==
  /\ req' = [req EXCEPT ![p] = r]
  /\ UNCHANGED <<DATABASE_URL, SYNC_BACK_TO_GCS, store, blob, writer, committed, nreq>>

\* ------------------------------------------------------------- GET /
StartIndex(p) == Begin(p, "index", [Idle EXCEPT !.pc = "i_vendas"])

\* index: Venda.query.order_by(Venda.id.asc()).all()
IndexVendas(p) ==
  /\ req[p].pc = "i_vendas"
  /\ Local(p, [Query(req[p]) EXCEPT !.pc = "i_barras"])

\* grafico_barras: Venda.query.all()
IndexBarras(p) ==
  /\ req[p].pc = "i_barras"
  /\ Local(p, [Query(req[p]) EXCEPT !.pc = "i_pizza"])

\* grafico_pizza: Venda.query.all(), then the page is rendered
IndexPizza(p) ==
  /\ req[p].pc = "i_pizza"
  /\ Local(p, [Query(req[p]) EXCEPT !.pc = "done", !.status = 200])

\* ------------------------------------------------------------- GET /carregar
StartCarregar(p) == Begin(p, "carregar", [Idle EXCEPT !.pc = "c_read"])

\* read_xls_from_gcs: the download fails (no such blob, transport, credentials).
ReadXlsUnavailable(p) ==
  /\ req[p].pc = "c_read"
  /\ Local(p, [req[p] EXCEPT !.pc = "c_except", !.error = "source"])

\* read_xls_from_gcs: download, check the columns, normalise.  A sheet that
\* passed the check without a required column would raise KeyError at the
\* first df["..."] of the normalisation.
ReadXls(p) ==
  /\ req[p].pc = "c_read"
  /\ Local(p, IF MissingCols(blob.cols) # {}
              THEN [req[p] EXCEPT !.pc = "c_except", !.error = "schema", !.fetched = blob]
              ELSE IF ~(REQUIRED_COLS \subseteq blob.cols)
              THEN [req[p] EXCEPT !.pc = "c_except", !.error = "key", !.fetched = blob]
              ELSE [req[p] EXCEPT !.pc = "c_delete", !.fetched = blob])

\* carregar_dados_do_gcs: db.session.query(Venda).delete()
DeleteAll(p) ==
  /\ req[p].pc = "c_delete"
  /\ LockFree(p)
  /\ store' = DeleteStatement(store).store
  /\ writer' = Taken(p)
  /\ req' = [req EXCEPT ![p] = [@ EXCEPT !.pc = "c_loop",
                                         !.deleted = DeleteStatement(store).deleted]]
  /\ UNCHANGED <<DATABASE_URL, SYNC_BACK_TO_GCS, blob, committed, nreq>>

\* The same statement when another transaction keeps the sqlite lock past the
\* busy timeout: OperationalError, database is locked.
DeleteAllLocked(p) ==
  /\ req[p].pc = "c_delete"
  /\ ~LockFree(p)
  /\ Local(p, [req[p] EXCEPT !.pc = "c_except", !.error = "locked"])

\* One turn of the loop: db.session.add(v); insert_count += 1
AddRow(p) ==
  /\ req[p].pc = "c_loop"
  /\ req[p].insert_count < Len(Df(p))
  /\ Local(p, [req[p] EXCEPT !.insert_count = @ + 1])

\* An exception inside the with-block after the DELETE was issued, in the loop
\* or in commit(): the application context is torn down, the session removed
\* and its transaction rolled back.
ImportFailsKeepsWork(p) ==
  /\ req[p].pc = "c_loop"
  /\ store' = CommitImport(store, req[p].deleted, SubSeq(Df(p), 1, req[p].insert_count))
  /\ writer' = IF writer = p THEN 0 ELSE writer
  /\ req' = [req EXCEPT ![p] = [@ EXCEPT !.pc = "c_except", !.deleted = {},
                 !.error = IF req[p].insert_count < Len(Df(p)) THEN "insert" ELSE "commit"]]
  /\ UNCHANGED <<DATABASE_URL, SYNC_BACK_TO_GCS, blob, committed, nreq>>
ImportFails(p) ==
  /\ req[p].pc = "c_loop"
  /\ writer' = IF writer = p THEN 0 ELSE writer
  /\ req' = [req EXCEPT ![p] = [@ EXCEPT !.pc = "c_except", !.deleted = {},
                 !.error = IF req[p].insert_count < Len(Df(p)) THEN "insert" ELSE "commit"]]
  /\ UNCHANGED <<DATABASE_URL, SYNC_BACK_TO_GCS, store, blob, committed, nreq>>

\* db.session.commit(), then carregar redirects to the index.
ImportCommit(p) ==
  /\ req[p].pc = "c_loop"
  /\ req[p].insert_count = Len(Df(p))
  /\ store' = CommitImport(store, req[p].deleted, SubSeq(Df(p), 1, req[p].insert_count))
  /\ committed' = store'
  /\ writer' = IF writer = p THEN 0 ELSE writer
  /\ req' = [Dirtied(p) EXCEPT ![p] = [@ EXCEPT !.pc = "done", !.status = 302]]
  /\ nreq' = nreq
  /\ UNCHANGED <<DATABASE_URL, SYNC_BACK_TO_GCS, blob>>

\* carregar's except branch: re-query, render with the error, 500.
CarregarExcept(p) ==
  /\ req[p].pc = "c_except"
  /\ Local(p, [Query(req[p]) EXCEPT !.pc = "done", !.status = 500])

\* ------------------------------------------------------------- POST /adicionar
\* The three form fields, each stripped as it is read.
StartAdicionar(p) ==
  \E form \in Forms :
    Begin(p, "adicionar",
          [Idle EXCEPT !.pc = "a_validate", !.produto = Strip(form.produto),
                       !.quantidade_raw = Strip(form.quantidade),
                       !.categoria = Strip(form.categoria)])

FormOk(r) == CamposPresentes(r.produto, r.categoria) /\ QuantidadeValida(r.quantidade_raw)

\* Either validation fails: the page is rendered with the error, 400.
AdicionarInvalid(p) ==
  /\ req[p].pc = "a_validate"
  /\ ~FormOk(req[p])
  /\ Local(p, [Query(req[p]) EXCEPT !.pc = "done", !.status = 400,
                 !.error = IF CamposPresentes(req[p].produto, req[p].categoria)
                           THEN "quantidade" ELSE "campos"])

\* After a committed add or delete: write back when configured, else redirect.
Committed(r) ==
  IF SYNC_BACK_TO_GCS THEN [r EXCEPT !.pc = "sync"]
  ELSE [r EXCEPT !.pc = "done", !.status = 302]

\* db.session.add(v); db.session.commit()
AdicionarCommit(p) ==
  /\ req[p].pc = "a_validate"
  /\ FormOk(req[p])
  /\ LockFree(p)
  /\ store' = store \cup Inserted(store,
                 <<[Produto |-> req[p].produto,
                    Quantidade |-> IntParse(req[p].quantidade_raw).v,
                    Categoria |-> req[p].categoria]>>)
  /\ committed' = store'
  /\ req' = [Dirtied(p) EXCEPT ![p] = Committed(@)]
  /\ UNCHANGED <<DATABASE_URL, SYNC_BACK_TO_GCS, blob, writer, nreq>>

\* The commit raises (the database is locked, or any other store failure):
\* nothing is written and the request ends 500.
AdicionarCommitFails(p) ==
  /\ req[p].pc = "a_validate"
  /\ FormOk(req[p])
  /\ Local(p, [req[p] EXCEPT !.pc = "done", !.status = 500, !.error = "commit"])

\* ------------------------------------------------------------- GET /excluir/<id>
StartExcluir(p) ==
  \E id \in 1..MaxId : Begin(p, "excluir", [Idle EXCEPT !.pc = "e_get", !.id = id])

\* v = Venda.query.get(id); abort(404) when there is none
ExcluirGet(p) ==
  /\ req[p].pc = "e_get"
  /\ Local(p, IF req[p].id \in Ids(store)
              THEN [req[p] EXCEPT !.pc = "e_commit",
                                  !.v = CHOOSE r \in store : r.id = req[p].id]
              ELSE [req[p] EXCEPT !.pc = "done", !.status = 404])

\* db.session.delete(v); db.session.commit()
ExcluirCommit(p) ==
  /\ req[p].pc = "e_commit"
  /\ LockFree(p)
  /\ store' = DeleteById(store, req[p].v)
  /\ committed' = store'
  /\ req' = [Dirtied(p) EXCEPT ![p] = Committed(@)]
  /\ UNCHANGED <<DATABASE_URL, SYNC_BACK_TO_GCS, blob, writer, nreq>>

\* The commit raises: excluir has no handler, flask answers 500.
ExcluirCommitFails(p) ==
  /\ req[p].pc = "e_commit"
  /\ Local(p, [req[p] EXCEPT !.pc = "done", !.status = 500, !.error = "commit"])

\* ------------------------------------------------------------- write-back
\* dump_db_to_dataframe and write_xls_to_gcs, inside try/except Exception.
WriteBack(p) ==
  /\ req[p].pc = "sync"
  /\ blob' = dump_db_to_dataframe(store)
  /\ req' = [req EXCEPT ![p] = [@ EXCEPT !.pc = "done", !.sync = "ok",
                                         !.status = StatusAfterSync(TRUE)]]
  /\ UNCHANGED <<DATABASE_URL, SYNC_BACK_TO_GCS, store, writer, committed, nreq>>

WriteBackFails(p) ==
  /\ req[p].pc = "sync"
  /\ Local(p, [req[p] EXCEPT !.pc = "done", !.sync = "failed",
                             !.status = StatusAfterSync(FALSE)])

Next ==
  \E p \in Procs :
    \/ StartIndex(p) \/ IndexVendas(p) \/ IndexBarras(p) \/ IndexPizza(p)
    \/ StartCarregar(p) \/ ReadXlsUnavailable(p) \/ ReadXls(p)
    \/ DeleteAll(p) \/ DeleteAllLocked(p) \/ AddRow(p)
    \/ ImportFails(p) \/ ImportCommit(p) \/ CarregarExcept(p)
    \/ StartAdicionar(p) \/ AdicionarInvalid(p)
    \/ AdicionarCommit(p) \/ AdicionarCommitFails(p)
    \/ StartExcluir(p) \/ ExcluirGet(p) \/ ExcluirCommit(p) \/ ExcluirCommitFails(p)
    \/ WriteBack(p) \/ WriteBackFails(p)

Spec == Init /\ [][Next]_vars

\* ================================================================= claims
Done(p, kind) == req[p].pc = "done" /\ req[p].kind = kind
Reads(p) == req[p].pc \in {"i_vendas", "i_barras", "i_pizza", "c_except", "a_validate"}
Rows(st) == Fields(OrderById(st))

\* C1: every read of the table (index, grafico_barras, grafico_pizza, the
\* error pages, dump_db_to_dataframe) returns the table as the last commit
\* left it: the complete set before a running import or, once the import has
\* committed, the complete set after it, and never the emptied or partly
\* filled table in between.
C1_ReadsSeeCommittedTable ==
  [][\A p \in Procs :
       /\ (Reads(p) /\ req'[p].pc # req[p].pc
             /\ (req[p].pc = "a_validate" => req'[p].status = 400))
            => req'[p].vendas = OrderById(committed)
       /\ (req[p].pc = "sync" /\ req'[p].sync = "ok")
            => blob' = dump_db_to_dataframe(committed)]_vars

\* C1 witness: an index request read a non-empty table while an import had
\* already issued its DELETE and added a row, and the import is still open.
C1_Witness ==
  \E p, q \in Procs :
    /\ req[p].kind = "index" /\ req[p].pc = "i_pizza" /\ req[p].mid
    /\ req[p].vendas # <<>>
    /\ req[q].pc = "c_loop" /\ req[q].deleted # {} /\ req[q].insert_count >= 1

\* C2 (as claimed): when two imports have both committed, the table holds
\* exactly the rows of one of the two sheets, never rows of both.
C2_ImportsSerialized ==
  \A p, q \in Procs :
    (p # q /\ Done(p, "carregar") /\ Done(q, "carregar")
       /\ req[p].status = 302 /\ req[q].status = 302)
      => Rows(store) \in {Df(p), Df(q)}

\* C3: an import that fails after its DELETE was issued, in the loop or at
\* commit, answers 500 with the rows the table held before the import, and
\* the table still holds exactly those rows (no other request having
\* committed meanwhile).
C3_FailedImportKeepsTable ==
  \A p \in Procs :
    (Done(p, "carregar") /\ req[p].error \in {"insert", "commit"} /\ ~req[p].dirty)
      => /\ req[p].status = 500
         /\ req[p].vendas = OrderById(req[p].pre)
         /\ store = req[p].pre
         /\ writer # p

\* C3 witness: a failed import over a non-empty table, after a row was added.
C3_Witness ==
  \E p \in Procs :
    /\ Done(p, "carregar") /\ req[p].error = "insert" /\ ~req[p].dirty
    /\ req[p].insert_count >= 1 /\ req[p].pre # {}

\* C4: a fetched sheet lacking a required column makes the import fail with
\* the schema error before any DELETE or INSERT: the request answers 500 and
\* the table is the one it found (no other request having committed).
C4_MissingColumnAborts ==
  \A p \in Procs :
    (Done(p, "carregar") /\ req[p].error # "source"
       /\ {"Produto", "Quantidade", "Categoria"} \ req[p].fetched.cols # {})
      => /\ req[p].error = "schema"
         /\ req[p].status = 500
         /\ req[p].insert_count = 0
         /\ ~req[p].dirty => (store = req[p].pre /\ req[p].vendas = OrderById(req[p].pre))

\* C4 witness: such a failed import over a non-empty table.
C4_Witness ==
  \E p \in Procs :
    /\ Done(p, "carregar") /\ req[p].error = "schema" /\ ~req[p].dirty
    /\ "Quantidade" \notin req[p].fetched.cols
    /\ req[p].pre # {}

\* What the claim expects of a cell: the text of the cell as pandas reads it
\* (an empty cell reads "nan"), and its number, 0 when there is none.
TextOf(c) == IF c.t = "nan" \/ c.s \in NaTexts THEN <<"n", "a", "n">> ELSE c.s
HasNumber(c) == c.t = "num" \/ (c.t = "str" /\ IntParse(Strip(c.s)).ok)
TenthsOf(c) == IF c.t = "num" THEN c.v ELSE 10 * IntParse(Strip(c.s)).v

C6_QuantityNonNegative ==
  [][(\A r \in store : r.quantidade \in Nat) => (\A r \in store' : r.quantidade \in Nat)]_vars

\* What the claim calls an invalid add: an empty product or category (after
\* trimming), or a quantity that is not an integer of at least 1.
InvalidAdd(r) ==
  \/ r.produto = <<>>
  \/ r.categoria = <<>>
  \/ ~(IntParse(r.quantidade_raw).ok /\ IntParse(r.quantidade_raw).v >= 1)

\* C7: an invalid add answers 400, attempts no write-back and leaves the
\* table as it found it (no other request having committed).
C7_InvalidAddRejected ==
  \A p \in Procs :
    (Done(p, "adicionar") /\ InvalidAdd(req[p]))
      => /\ req[p].status = 400
         /\ req[p].sync = "none"
         /\ ~req[p].dirty => store = req[p].pre

\* C7 witness: a rejected add of quantity 0 over a non-empty table.
C7_Witness ==
  \E p \in Procs :
    /\ Done(p, "adicionar") /\ req[p].status = 400 /\ ~req[p].dirty
    /\ req[p].quantidade_raw = <<"0">> /\ req[p].pre # {}

\* C8: a delete of an id no row has answers 404, attempts no write-back and
\* leaves the table as it found it; a delete of an id a row has removes that
\* row and no other (no other request having committed).
C8_DeleteById ==
  \A p \in Procs :
    (Done(p, "excluir") /\ ~req[p].dirty)
      => IF req[p].id \notin Ids(req[p].pre)
         THEN req[p].status = 404 /\ req[p].sync = "none" /\ store = req[p].pre
         ELSE /\ req[p].status \in {302, 500}
              /\ req[p].status = 302 =>
                   store = {r \in req[p].pre : r.id # req[p].id}
              /\ req[p].status = 500 => store = req[p].pre

\* C8 witness: a delete that removed one of three rows, another row of the
\* same product staying.
C8_Witness ==
  \E p \in Procs :
    /\ Done(p, "excluir") /\ ~req[p].dirty /\ req[p].status = 302
    /\ Cardinality(req[p].pre) = 3 /\ Cardinality(store) = 2
    /\ \E r \in store : r.produto = req[p].v.produto

\* The table an add or a delete leaves when it is the only one to commit.
AfterMutation(r) ==
  IF r.kind = "adicionar"
  THEN r.pre \cup {[id |-> MaxIdOf(r.pre) + 1, produto |-> r.produto,
                    quantidade |-> IntParse(r.quantidade_raw).v, categoria |-> r.categoria]}
  ELSE {x \in r.pre : x.id # r.id}

\* C9: a failed write-back after a committed add or delete is swallowed:
\* the request still redirects (302) and the committed change stays; with
\* write-back disabled no request attempts one.
C9_WriteBackFailureSwallowed ==
  /\ \A p \in Procs :
       (req[p].pc = "done" /\ req[p].sync = "failed")
         => /\ req[p].status = 302
            /\ ~req[p].dirty => (store = AfterMutation(req[p]) /\ store # req[p].pre)
  /\ ~SYNC_BACK_TO_GCS => \A p \in Procs : req[p].sync = "none" /\ req[p].pc # "sync"

\* C9 witness: an add whose write-back failed.
C9_Witness ==
  \E p \in Procs :
    Done(p, "adicionar") /\ req[p].sync = "failed" /\ ~req[p].dirty

\* C10 (as claimed): an import of the sheet that dump_db_to_dataframe makes
\* of the table gives the table the same rows again, ids aside.
C10_ExportImportRoundTrip ==
  \A p \in Procs :
    (Done(p, "carregar") /\ req[p].status = 302 /\ ~req[p].dirty
       /\ req[p].fetched = dump_db_to_dataframe(req[p].pre))
      => Rows(store) = Rows(req[p].pre)
====
